---- MODULE Spec2Model ----
(***************************************************************************)
(* Project tree of apiserver/bll/project/project_bll.py (class ProjectBLL) *)
(* as a state machine over the document store: the Project collection and  *)
(* the Task / Model collections that reference it.                          *)
(*                                                                          *)
(* Strings are kept split on name_separator "/": a raw name is the         *)
(* sequence of its segments, an empty segment being "" ("a//b" is          *)
(* <<"a", "", "b">>, the empty string is <<"">>).  Stored project names are *)
(* the cleaned full names ("a/b/c" is <<"a", "b", "c">>).                  *)
(*                                                                          *)
(* last_update and description are written but never read by this module,  *)
(* so they are represented by the fact of the write: last.touched is the    *)
(* set of projects whose last_update the latest call has stamped,           *)
(* last.described the set of projects whose description it has set.         *)
(*                                                                          *)
(* Calls are served one at a time: a call runs to its result (last), the    *)
(* caller takes the result (Return), and the next call starts.              *)
(*                                                                          *)
(* One company is modelled; every request is scoped to it.                  *)
(***************************************************************************)
EXTENDS Integers, Sequences, FiniteSets, TLC

\* ---------------------------------------------------------------- bounds
MaxProjects == 5          \* ids ever handed out by database.utils.id()
NumLeaves == 3            \* Task / Model documents in the store
MaxWrites == 4            \* calls that change the Project collection

\* Python's None, for a missing parent / project reference
None == 0

ProjectIds == 1..MaxProjects
LeafIds == 1..NumLeaves

\* values of services.projects.sub_projects.max_depth the server is started with
DepthConfigs == {3, 4}

\* the n-segment name a/b/a/b/...
Chain(n) == [i \in 1..n |-> IF i % 2 = 1 THEN "a" ELSE "b"]

\* raw names and locations callers pass in
NameInputs ==
    {Chain(n) : n \in 1..5}
        \cup {<<"b">>, <<"a", "a">>, <<"a", "", "b">>, <<"">>}

VARIABLES
    max_depth,   \* configured depth bound, read once at import
    projects,    \* Project collection: id -> document
    next_id,     \* next fresh id of database.utils.id()
    leaves,      \* Task and Model collections: id -> document
    writes,      \* calls so far that changed the Project collection
    last,        \* the latest call: operation, arguments, outcome, result
    pre,         \* the store as it was when the latest call started
    attrs,       \* the Task fields the statistics read: id -> document
    creators,    \* the user field of the projects, user and company of the entities
    stats,       \* the request and the answer of a call that only reads
    run,         \* the writes a call served write by write has yet to make
    inflight     \* the calls that are served at the same time, request by request

vars == <<max_depth, projects, next_id, leaves, writes, last, pre, attrs, creators, stats, run, inflight>>

\* ------------------------------------------------------------ path codec
\* list(filter(None, project_name.split(name_separator)))
name_parts(raw) == SelectSeq(raw, LAMBDA s : s # "")

_get_project_depth(raw) == Len(name_parts(raw))

\* _validate_project_name raises InvalidProjectName iff no segment is left
ValidProjectName(raw) == name_parts(raw) # <<>>

Front(s) == SubSeq(s, 1, Len(s) - 1)

\* _validate_project_name -> (cleaned name, location)
_validate_project_name(raw) ==
    [name |-> name_parts(raw), location |-> Front(name_parts(raw))]

Suffix(s, n) == SubSeq(s, n + 1, Len(s))

InPath(path, id) == \E i \in 1..Len(path) : path[i] = id

PathSet(path) == {path[i] : i \in 1..Len(path)}

Min(S) == CHOOSE x \in S : \A y \in S : x <= y

\* ------------------------------------------------------------ the store
\* an in-memory Project object; NoDoc stands for None
NoDoc == [id |-> None, name |-> <<>>, parent |-> None, path |-> <<>>]

Doc(P, id) ==
    IF id \in DOMAIN P
    THEN [id |-> id, name |-> P[id].name, parent |-> P[id].parent, path |-> P[id].path]
    ELSE NoDoc

\* entities of odd id are tasks, of even id models
EntityType(l) == IF l % 2 = 1 THEN "Task" ELSE "Model"

\* queryset.first(): the store fixes no order among several matches
First(S, pref) == IF pref \in S THEN pref ELSE Min(S)

ByName(P, name) == {id \in DOMAIN P : P[id].name = name}

\* ids whose name is shared with another project: the only lookups whose
\* answer first() leaves open
Ambiguous(P) == {id \in DOMAIN P : \E o \in DOMAIN P : o # id /\ P[o].name = P[id].name}

\* _get_sub_projects([pid])[pid]: projects of every level with pid in path
_get_sub_projects(P, pid) == {c \in DOMAIN P : InPath(P[c].path, pid)}

\* _save_under_parent: parent and path from the parent object, then save()
_save_under_parent(P, id, doc, parent) ==
    LET saved == [doc EXCEPT
                    !.parent = parent.id,
                    !.path = IF parent.id = None THEN <<>>
                             ELSE Append(parent.path, parent.id)]
    IN  [i \in DOMAIN P \cup {id} |-> IF i = id THEN saved ELSE P[i]]

\* _ensure_project(company, user, name): the project named `name`, created
\* together with its missing ancestors.  st = [projects, next_id, touched]
RECURSIVE _ensure_project(_, _, _)
_ensure_project(st, raw, pref) ==
    LET name == name_parts(raw)
        found == ByName(st.projects, name)
    IN  IF name = <<>> THEN [st EXCEPT !.doc = NoDoc]
        ELSE IF found # {}
        THEN [st EXCEPT !.doc = Doc(st.projects, First(found, pref))]
        ELSE LET up == _ensure_project(st, Front(name), pref)
                 id == up.next_id
                 new == [name |-> name, parent |-> None, path |-> <<>>]
                 P == _save_under_parent(up.projects, id, new, up.doc)
             IN  [projects |-> P,
                  next_id |-> id + 1,
                  touched |-> up.touched \cup {id} \cup ({up.doc.id} \ {None}),
                  doc |-> Doc(P, id)]

\* _update_subproject_names: every loaded child keeps the part of its name
\* below the old name of `project`, under the new name.  mem is the store as
\* it was when the children were loaded
_update_subproject_names(P, mem, children, new_name, old_name) ==
    [i \in DOMAIN P |->
        IF i \in children
        THEN [P[i] EXCEPT !.name = new_name \o Suffix(mem[i].name, Len(old_name))]
        ELSE P[i]]

\* the path rewrite of a move: new ancestor chain, then the part of the old
\* path below the moved project
RewritePaths(P, mem, children, new_path, old_path) ==
    [i \in DOMAIN P |->
        IF i \in children
        THEN [P[i] EXCEPT !.path = new_path \o Suffix(mem[i].path, Len(old_path))]
        ELSE P[i]]

\* _reposition_project_with_children(project, children, parent): project and
\* children are the objects loaded from mem, parent a loaded object or NoDoc
_reposition_project_with_children(P, mem, pid, children, parent) ==
    LET project == Doc(mem, pid)
        new_name == Append(parent.name, project.name[Len(project.name)])
        saved == _save_under_parent(
                    P, pid, [P[pid] EXCEPT !.name = new_name], parent)
        named == _update_subproject_names(
                    saved, mem, children, new_name, project.name)
        updated == children \cap DOMAIN P
    IN  [projects |-> RewritePaths(
                        named, mem, children, saved[pid].path, project.path),
         moved |-> 1 + Cardinality(updated),
         touched |-> {pid} \cup updated]

\* ------------------------------------------------------------ ProjectBLL
\* what a call leaves behind: outcome, store, return values
NoResult == [moved |-> 0, moved_sub |-> 0, affected |-> {}, value |-> None]

Outcome(err, P, nid, L, touched, described, result) ==
    [outcome |-> err, projects |-> P, next_id |-> nid, leaves |-> L,
     touched |-> touched, described |-> described, result |-> result]

\* an exception raised before any write
Raise(err) == Outcome(err, projects, next_id, leaves, {}, {}, NoResult)

NewStore == [projects |-> projects, next_id |-> next_id, touched |-> {}, doc |-> NoDoc]

\* validate_projects_depth with the bound off by one
validate_projects_depth_strict(P, ids, old_parent_depth, new_parent_depth) ==
    \A current \in ids :
        (Len(P[current].path) + 1) - old_parent_depth + new_parent_depth < max_depth

\* validate_projects_depth: TRUE iff it does not raise ProjectPathExceedsMax
validate_projects_depth(P, ids, old_parent_depth, new_parent_depth) ==
    \A current \in ids :
        (Len(P[current].path) + 1) - old_parent_depth + new_parent_depth <= max_depth

\* the bulk update without its system_tags__nin filter
MergeMatches_untagged(L, source_id) == {l \in DOMAIN L : L[l].project = source_id}

\* merge_project, lines 75-80: the entities the bulk update matches
MergeMatches(L, source_id) ==
    {l \in DOMAIN L : L[l].project = source_id /\ ~L[l].archived}

\* the bulk update with the Model pass left out: only tasks are re-pointed
MergeEntities_tasks(L, source_id, destination_id) ==
    [l \in DOMAIN L |->
        IF l \in MergeMatches(L, source_id) /\ EntityType(l) = "Task"
        THEN [L[l] EXCEPT !.project = destination_id]
        ELSE L[l]]

\* merge_project, lines 74-80: the bulk update of Task and Model
MergeEntities(L, source_id, destination_id) ==
    [l \in DOMAIN L |->
        IF l \in MergeMatches(L, source_id)
        THEN [L[l] EXCEPT !.project = destination_id]
        ELSE L[l]]

\* merge_project, line 86: the children handed over with one child of source
ChildrenOfChild(mem, children, child) == {c \in children : mem[c].parent = child}

\* merge_project, lines 83-89: the loop over the immediate children of source
RECURSIVE MergeChildren(_, _, _, _, _)
MergeChildren(st, mem, todo, children, destination) ==
    IF todo = {} THEN st
    ELSE LET child == Min(todo)
             rep == _reposition_project_with_children(
                        st.projects, mem, child,
                        ChildrenOfChild(mem, children, child), destination)
         IN  MergeChildren(
                [projects |-> rep.projects,
                 touched |-> st.touched \cup rep.touched,
                 moved_sub |-> st.moved_sub + 1],
                mem, todo \ {child}, children, destination)

merge_project(source_id, destination_id) ==
    LET source == Doc(projects, source_id)
        destination == Doc(projects, destination_id)
        children == _get_sub_projects(projects, source_id)
        moved == MergeChildren(
                    [projects |-> projects, touched |-> {}, moved_sub |-> 0],
                    projects,
                    {c \in DOMAIN projects : projects[c].parent = source_id},
                    children, destination)
        kept == DOMAIN moved.projects \ {source_id}
    IN  IF source_id = destination_id
        THEN Raise("ProjectSourceAndDestinationAreTheSame")
        ELSE IF source.id = None \/ destination.id = None
        THEN Raise("InvalidProjectId")
        ELSE IF ~validate_projects_depth(
                    projects, children,
                    Len(source.path) + 1, Len(destination.path) + 1)
        THEN Raise("ProjectPathExceedsMax")
        ELSE Outcome("ok",
                [i \in kept |-> moved.projects[i]],
                next_id,
                MergeEntities(leaves, source_id, destination_id),
                moved.touched \cup {destination_id},
                {},
                [moved |-> Cardinality(MergeMatches(leaves, source_id)),
                 moved_sub |-> moved.moved_sub,
                 affected |-> ({source_id} \cup PathSet(source.path))
                    \cup ({destination_id} \cup PathSet(destination.path)),
                 value |-> None])

\* move_project resolving the destination before it validates the depth
move_project_ensure_first(project_id, new_location, pref) ==
    LET project == Doc(projects, project_id)
        old_parent_id == project.parent
        old_parent == Doc(projects, old_parent_id)
        children == _get_sub_projects(projects, project_id)
        ens == _ensure_project(NewStore, new_location, pref)
        new_parent == ens.doc
        rep == _reposition_project_with_children(
                    ens.projects, projects, project_id, children, new_parent)
        parents == {old_parent, new_parent} \ {NoDoc}
    IN  IF project.id = None
        THEN Raise("InvalidProjectId")
        ELSE IF ~validate_projects_depth(
                    projects, {project_id} \cup children,
                    Len(project.path), _get_project_depth(new_location))
        THEN Outcome("ProjectPathExceedsMax",
                ens.projects, ens.next_id, leaves, ens.touched, {}, NoResult)
        ELSE IF old_parent_id = new_parent.id
        THEN Outcome("ProjectSourceAndDestinationAreTheSame",
                ens.projects, ens.next_id, leaves, ens.touched, {}, NoResult)
        ELSE Outcome("ok",
                rep.projects, ens.next_id, leaves,
                ens.touched \cup rep.touched \cup {p.id : p \in parents},
                {},
                [moved |-> rep.moved,
                 moved_sub |-> 0,
                 affected |-> UNION {{p.id} \cup PathSet(p.path) : p \in parents},
                 value |-> None])

\* move_project, lines 119-154
move_project(project_id, new_location, pref) ==
    LET project == Doc(projects, project_id)
        old_parent_id == project.parent
        old_parent == Doc(projects, old_parent_id)
        children == _get_sub_projects(projects, project_id)
        ens == _ensure_project(NewStore, new_location, pref)
        new_parent == ens.doc
        rep == _reposition_project_with_children(
                    ens.projects, projects, project_id, children, new_parent)
        parents == {old_parent, new_parent} \ {NoDoc}
    IN  IF project.id = None
        THEN Raise("InvalidProjectId")
        ELSE IF ~validate_projects_depth(
                    projects, {project_id} \cup children,
                    Len(project.path), _get_project_depth(new_location))
        THEN Raise("ProjectPathExceedsMax")
        ELSE IF old_parent_id = new_parent.id
        THEN Outcome("ProjectSourceAndDestinationAreTheSame",
                ens.projects, ens.next_id, leaves, ens.touched, {}, NoResult)
        ELSE Outcome("ok",
                rep.projects, ens.next_id, leaves,
                ens.touched \cup rep.touched \cup {p.id : p \in parents},
                {},
                [moved |-> rep.moved,
                 moved_sub |-> 0,
                 affected |-> UNION {{p.id} \cup PathSet(p.path) : p \in parents},
                 value |-> None])

\* update(company, project_id, **fields): fields.name is <<>> when no name is
\* passed and <<raw name>> when one is; fields.description is whether a
\* description is passed
HasName(fields) == fields.name # <<>> /\ fields.name[1] # <<"">>

\* the location check comparing the depth of the two locations only
LocationChanged_depth(new, old) == Len(new.location) # Len(old.location)

\* update, line 167: new_location != old_location
LocationChanged(new, old) == new.location # old.location

update(project_id, fields) ==
    LET project == Doc(projects, project_id)
        new == _validate_project_name(fields.name[1])
        old == _validate_project_name(project.name)
        written == [projects EXCEPT ![project_id].name =
                        IF HasName(fields) THEN new.name ELSE @]
        children == _get_sub_projects(written, project_id)
        described == IF fields.description THEN {project_id} ELSE {}
        updated == [NoResult EXCEPT !.value = 1]
    IN  IF project.id = None
        THEN Raise("InvalidProjectId")
        ELSE IF HasName(fields) /\ ~ValidProjectName(fields.name[1])
        THEN Raise("InvalidProjectName")
        ELSE IF HasName(fields) /\ LocationChanged(new, old)
        THEN Raise("CannotUpdateProjectLocation")
        ELSE IF HasName(fields)
        THEN Outcome("ok",
                _update_subproject_names(
                    written, written, children, new.name, project.name),
                next_id, leaves, {project_id} \cup children, described, updated)
        ELSE Outcome("ok", written, next_id, leaves, {project_id}, described, updated)

create(raw, pref) ==
    LET valid == _validate_project_name(raw)
        ens == _ensure_project(NewStore, valid.location, pref)
        parent == ens.doc
        id == ens.next_id
        project == [name |-> valid.name, parent |-> None, path |-> <<>>]
    IN  IF _get_project_depth(raw) > max_depth
        THEN Raise("ProjectPathExceedsMax")
        ELSE IF ~ValidProjectName(raw)
        THEN Raise("InvalidProjectName")
        ELSE Outcome("ok",
                _save_under_parent(ens.projects, id, project, parent),
                id + 1, leaves,
                ens.touched \cup {id} \cup ({parent.id} \ {None}),
                {id},
                [NoResult EXCEPT !.value = id])

\* find_or_create that never looks the name up
find_or_create_unseen(project_name, project_id, pref) ==
    IF project_id = None /\ project_name = <<"">>
    THEN Raise("ValueError")
    ELSE IF project_id # None
    THEN IF project_id \notin DOMAIN projects
         THEN Raise("InvalidProjectId")
         ELSE Outcome("ok", projects, next_id, leaves, {}, {},
                [NoResult EXCEPT !.value = project_id])
    ELSE IF ~ValidProjectName(project_name)
    THEN Raise("InvalidProjectName")
    ELSE create(_validate_project_name(project_name).name, pref)

\* find_or_create(user, company, project_name, description, project_id):
\* project_id is None when none is passed, project_name <<"">> (the empty
\* string) when none is passed
find_or_create(project_name, project_id, pref) ==
    LET found == ByName(projects, _validate_project_name(project_name).name)
    IN  IF project_id = None /\ project_name = <<"">>
        THEN Raise("ValueError")
        ELSE IF project_id # None
        THEN IF project_id \notin DOMAIN projects
             THEN Raise("InvalidProjectId")
             ELSE Outcome("ok", projects, next_id, leaves, {}, {},
                    [NoResult EXCEPT !.value = project_id])
        ELSE IF ~ValidProjectName(project_name)
        THEN Raise("InvalidProjectName")
        ELSE IF found # {}
        THEN Outcome("ok", projects, next_id, leaves, {}, {},
                [NoResult EXCEPT !.value = First(found, pref)])
        ELSE create(_validate_project_name(project_name).name, pref)

\* move_under_project(entity_cls, user, company, ids, project=project_id):
\* find_or_create answers the id of an existing project, the entities are
\* re-pointed to it
move_under_project(ids, project_id) ==
    IF project_id \notin DOMAIN projects
    THEN Raise("InvalidProjectId")
    ELSE Outcome("ok", projects, next_id,
            [l \in DOMAIN leaves |->
                IF l \in ids THEN [leaves[l] EXCEPT !.project = project_id]
                ELSE leaves[l]],
            {}, {}, [NoResult EXCEPT !.value = project_id])

\* ------------------------------------------------- the writes of a call
\* One store request that writes: a bulk update of the entities of a type
\* (kind "entities"), the save of a project document ("save"), the update of
\* name and path of a child ("update"), a delete ("delete"), an update of
\* last_update alone ("stamp")
EntitiesWrite(type, source_id, destination_id) ==
    [kind |-> "entities", type |-> type, id |-> source_id, to |-> destination_id,
     name |-> << >>, path |-> << >>]

SaveWrite(id, name, parent) ==
    [kind |-> "save", type |-> "Project", id |-> id, to |-> parent.id,
     name |-> name,
     path |-> IF parent.id = None THEN << >> ELSE Append(parent.path, parent.id)]

UpdateWrite(id, name, path) ==
    [kind |-> "update", type |-> "Project", id |-> id, to |-> None,
     name |-> name, path |-> path]

DeleteWrite(id) ==
    [kind |-> "delete", type |-> "Project", id |-> id, to |-> None,
     name |-> << >>, path |-> << >>]

StampWrite(id) ==
    [kind |-> "stamp", type |-> "Project", id |-> id, to |-> None,
     name |-> << >>, path |-> << >>]

\* a Project collection that refuses the update of a document whose parent
\* is not the last element of the new path
WriteProjects_checked(P, w) ==
    IF w.kind = "save"
    THEN [i \in DOMAIN P \cup {w.id} |->
            IF i = w.id THEN [name |-> w.name, parent |-> w.to, path |-> w.path]
            ELSE P[i]]
    ELSE IF /\ w.kind = "update"
            /\ w.id \in DOMAIN P
            /\ w.path # << >>
            /\ P[w.id].parent = w.path[Len(w.path)]
    THEN [P EXCEPT ![w.id].name = w.name, ![w.id].path = w.path]
    ELSE IF w.kind = "delete"
    THEN [i \in DOMAIN P \ {w.id} |-> P[i]]
    ELSE P

\* the Project collection after one write
WriteProjects(P, w) ==
    IF w.kind = "save"
    THEN [i \in DOMAIN P \cup {w.id} |->
            IF i = w.id THEN [name |-> w.name, parent |-> w.to, path |-> w.path]
            ELSE P[i]]
    ELSE IF w.kind = "update" /\ w.id \in DOMAIN P
    THEN [P EXCEPT ![w.id].name = w.name, ![w.id].path = w.path]
    ELSE IF w.kind = "delete"
    THEN [i \in DOMAIN P \ {w.id} |-> P[i]]
    ELSE P

\* the Task and Model collections after one write
WriteLeaves(L, w) ==
    IF w.kind = "entities"
    THEN [l \in DOMAIN L |->
            IF EntityType(l) = w.type /\ l \in MergeMatches(L, w.id)
            THEN [L[l] EXCEPT !.project = w.to]
            ELSE L[l]]
    ELSE L

\* a set of ids in the order a query answers them
RECURSIVE InOrder(_)
InOrder(S) ==
    IF S = {} THEN << >>
    ELSE <<Min(S)>> \o InOrder(S \ {Min(S)})

\* the writes of _ensure_project(company, user, name), in their order: the
\* save of each missing project, then the last_update of its parent
RECURSIVE ensure_writes(_, _, _)
ensure_writes(st, raw, pref) ==
    LET name == name_parts(raw)
        up == _ensure_project(st, Front(name), pref)
    IN  IF name = << >> \/ ByName(st.projects, name) # {} THEN << >>
        ELSE ensure_writes(st, Front(name), pref)
                \o <<SaveWrite(up.next_id, name, up.doc)>>
                \o (IF up.doc.id = None THEN << >> ELSE <<StampWrite(up.doc.id)>>)

\* the writes of _reposition_project_with_children(project, children, parent)
reposition_writes(mem, pid, children, parent) ==
    LET project == Doc(mem, pid)
        new_name == Append(parent.name, project.name[Len(project.name)])
        saved == SaveWrite(pid, new_name, parent)
        order == InOrder(children)
    IN  <<saved>> \o
        [i \in 1..Len(order) |->
            UpdateWrite(order[i],
                new_name \o Suffix(mem[order[i]].name, Len(project.name)),
                saved.path \o Suffix(mem[order[i]].path, Len(project.path)))]

\* merge_project with the source deleted before its children are moved
merge_writes_delete_first(source_id, destination_id) ==
    LET children == _get_sub_projects(projects, source_id)
        todo == InOrder({c \in DOMAIN projects : projects[c].parent = source_id})
        RECURSIVE moves(_)
        moves(i) ==
            IF i > Len(todo) THEN << >>
            ELSE reposition_writes(
                    projects, todo[i],
                    ChildrenOfChild(projects, children, todo[i]),
                    Doc(projects, destination_id))
                 \o moves(i + 1)
    IN  <<EntitiesWrite("Task", source_id, destination_id),
          EntitiesWrite("Model", source_id, destination_id)>>
            \o <<DeleteWrite(source_id)>>
            \o moves(1)
            \o <<StampWrite(destination_id)>>

\* the writes of merge_project, lines 74-96, in their order
merge_writes(source_id, destination_id) ==
    LET children == _get_sub_projects(projects, source_id)
        todo == InOrder({c \in DOMAIN projects : projects[c].parent = source_id})
        RECURSIVE moves(_)
        moves(i) ==
            IF i > Len(todo) THEN << >>
            ELSE reposition_writes(
                    projects, todo[i],
                    ChildrenOfChild(projects, children, todo[i]),
                    Doc(projects, destination_id))
                 \o moves(i + 1)
    IN  <<EntitiesWrite("Task", source_id, destination_id),
          EntitiesWrite("Model", source_id, destination_id)>>
            \o moves(1)
            \o <<DeleteWrite(source_id)>>
            \o <<StampWrite(destination_id)>>

\* the writes of move_project, lines 137-152, in their order
move_writes(project_id, new_location, pref) ==
    LET project == Doc(projects, project_id)
        old_parent == Doc(projects, project.parent)
        children == _get_sub_projects(projects, project_id)
        new_parent == _ensure_project(NewStore, new_location, pref).doc
        parents == <<old_parent, new_parent>>
    IN  ensure_writes(NewStore, new_location, pref)
            \o (IF project.parent = new_parent.id THEN << >>
                ELSE reposition_writes(projects, project_id, children, new_parent)
                        \o [i \in 1..Len(SelectSeq(parents, LAMBDA p : p # NoDoc)) |->
                                StampWrite(SelectSeq(parents, LAMBDA p : p # NoDoc)[i].id)])

\* ------------------------------------------------------------ statistics
\* get_options(TaskStatus): the statuses every report carries
TaskStatus == {"created", "failed", "unknown"}

\* EntityVisibility
EntityVisibility == {"active", "archived"}

\* the task types whose run time is counted
RuntimeTypes == {"training", "testing", "annotation"}

\* a task document without status; a specific_state of None
NoStatus == ""

AnyState == ""

\* the Task fields of an entity no statistics were asked about
NoAttrs == [status |-> NoStatus, type |-> "training", started |-> None, completed |-> None]

NoStats == [project_ids |-> {}, specific_state |-> AnyState,
            stats |-> << >>, children |-> << >>]

\* ensure_valid_fields: "status": {"$ifNull": ["$status", "unknown"]}
ensure_valid_fields(A, l) == IF A[l].status = NoStatus THEN "unknown" ELSE A[l].status

\* archived_tasks_cond, as the section it selects
SectionOf(L, l) == IF L[l].archived THEN "archived" ELSE "active"

\* the "$match" of both pipelines: the tasks of one project
TasksOf(L, p) == {l \in DOMAIN L : EntityType(l) = "Task" /\ L[l].project = p}

RECURSIVE Sum(_, _)
Sum(f, S) ==
    IF S = {} THEN 0
    ELSE LET x == Min(S) IN f[x] + Sum(f, S \ {x})

\* set_default_count: dict(default_counts, **entry)
set_default_count(entry) ==
    [s \in TaskStatus \cup DOMAIN entry |-> IF s \in DOMAIN entry THEN entry[s] ELSE 0]

\* status_count_pipeline and the loop over its results (lines 325-357 and
\* 467-479): project -> section -> status -> count, for the projects that
\* have tasks and the sections those tasks are in
status_count_data(L, A, scope) ==
    [p \in {q \in scope : TasksOf(L, q) # {}} |->
        [section \in {SectionOf(L, l) : l \in TasksOf(L, p)} |->
            LET group == {l \in TasksOf(L, p) : SectionOf(L, l) = section}
            IN  set_default_count(
                    [s \in {ensure_valid_fields(A, l) : l \in group} |->
                        Cardinality({l \in group : ensure_valid_fields(A, l) = s})])]]

\* sum_status_count
sum_status_count(a, b) ==
    [section \in DOMAIN a \cup DOMAIN b |->
        LET x == IF section \in DOMAIN a THEN a[section] ELSE << >>
            y == IF section \in DOMAIN b THEN b[section] ELSE << >>
        IN  [status \in DOMAIN x \cup DOMAIN y |->
                (IF status \in DOMAIN x THEN x[status] ELSE 0)
                    + (IF status \in DOMAIN y THEN y[status] ELSE 0)]]

\* runtime_subquery without the test completed > started
runtime_subquery_unordered(A, l) ==
    IF A[l].started # None /\ A[l].completed # None
    THEN (A[l].completed - A[l].started) \div 1000
    ELSE 0

\* runtime_subquery: the seconds one task adds to a section
runtime_subquery(A, l) ==
    IF A[l].started # None /\ A[l].completed # None /\ A[l].completed > A[l].started
    THEN (A[l].completed - A[l].started) \div 1000
    ELSE 0

\* the sections a call reports
report_for_states(specific_state) ==
    IF specific_state = AnyState THEN EntityVisibility ELSE {specific_state}

\* runtime_pipeline (lines 388-414 and 500-503): project -> section ->
\* seconds, for the projects that have tasks of the counted types
runtime_data(L, A, scope, specific_state) ==
    LET counted(p) == {l \in TasksOf(L, p) : A[l].type \in RuntimeTypes}
    IN  [p \in {q \in scope : counted(q) # {}} |->
            [section \in report_for_states(specific_state) |->
                Sum([l \in DOMAIN L |-> runtime_subquery(A, l)],
                    {l \in counted(p) : SectionOf(L, l) = section})]]

\* sum_runtime
sum_runtime(a, b) ==
    [section \in DOMAIN a \cup DOMAIN b |->
        (IF section \in DOMAIN a THEN a[section] ELSE 0)
            + (IF section \in DOMAIN b THEN b[section] ELSE 0)]

Apply(func, a, b) ==
    IF func = "sum_status_count" THEN sum_status_count(a, b) ELSE sum_runtime(a, b)

\* functools.reduce(func, relevant_data), relevant_data being data[p], p in keys
RECURSIVE reduce(_, _, _)
reduce(func, data, keys) ==
    LET p == Min(keys)
    IN  IF keys = {p} THEN data[p]
        ELSE Apply(func, data[p], reduce(func, data, keys \ {p}))

\* aggregate_project_data, lines 431-440
aggregate_project_data(func, project_ids, child_projects, data) ==
    LET relevant_projects(pid) == child_projects[pid] \cup {pid}
    IN  [pid \in {q \in project_ids : relevant_projects(q) \cap DOMAIN data # {}} |->
            reduce(func, data, relevant_projects(pid) \cap DOMAIN data)]

\* str order of two names: segment by segment, a prefix first
NameLess(x, y) ==
    \E i \in 1..Len(y) :
        /\ \A j \in 1..(i - 1) : j <= Len(x) /\ x[j] = y[j]
        /\ \/ i = Len(x) + 1
           \/ i <= Len(x) /\ x[i] = "a" /\ y[i] = "b"

\* sorted(..., key=itemgetter("name")); equal names in the order of the ids
RECURSIVE sorted(_, _)
sorted(P, S) ==
    IF S = {} THEN << >>
    ELSE LET c == CHOOSE x \in S : \A y \in S :
                    ~NameLess(P[y].name, P[x].name)
                        /\ (P[y].name = P[x].name => x <= y)
         IN  <<[id |-> c, name |-> P[c].name]>> \o sorted(P, S \ {c})

\* get_status_counts(project_id, section) returning an absent status_count
\* as it is found
get_status_counts_nodefault(runtime, status_count, project_id, section) ==
    [total_runtime |->
        IF project_id \in DOMAIN runtime /\ section \in DOMAIN runtime[project_id]
        THEN runtime[project_id][section] ELSE 0,
     status_count |->
        IF project_id \in DOMAIN status_count
            /\ section \in DOMAIN status_count[project_id]
        THEN status_count[project_id][section]
        ELSE << >>]

\* get_status_counts(project_id, section), lines 520-526
get_status_counts(runtime, status_count, project_id, section) ==
    [total_runtime |->
        IF project_id \in DOMAIN runtime /\ section \in DOMAIN runtime[project_id]
        THEN runtime[project_id][section] ELSE 0,
     status_count |->
        IF project_id \in DOMAIN status_count
            /\ section \in DOMAIN status_count[project_id]
        THEN status_count[project_id][section]
        ELSE [s \in TaskStatus |-> 0]]

\* get_project_stats(company, project_ids, specific_state) -> (stats, children)
get_project_stats(P, L, A, project_ids, specific_state) ==
    LET child_projects == [p \in project_ids |-> _get_sub_projects(P, p)]
        project_ids_with_children ==
            project_ids \cup UNION {child_projects[p] : p \in project_ids}
        status_count == aggregate_project_data(
                            "sum_status_count", project_ids, child_projects,
                            status_count_data(L, A, project_ids_with_children))
        runtime == aggregate_project_data(
                        "sum_runtime", project_ids, child_projects,
                        runtime_data(L, A, project_ids_with_children, specific_state))
    IN  [stats |->
            [project \in project_ids |->
                [task_state \in report_for_states(specific_state) |->
                    get_status_counts(runtime, status_count, project, task_state)]],
         children |->
            [project \in project_ids |-> sorted(P, child_projects[project])]]

\* ------------------------------------------------------ active users
Users == {"u1", "u2"}

\* the company of the calls, the public sentinel and another tenant
Companies == {"company", "public", "other"}

\* a store in which one user created everything, in the company
NoCreators ==
    [project |-> [p \in ProjectIds |-> "u1"],
     leaf |-> [l \in LeafIds |-> [user |-> "u1", company |-> "company"]]]

\* _ids_with_children: the ids and every project with one of them in its path
_ids_with_children(P, project_ids) ==
    project_ids \cup {p \in DOMAIN P : PathSet(P[p].path) \cap project_ids # {}}

\* _ids_with_parents that looks no further than the ids it is given
_ids_with_parents_own(P, project_ids) == project_ids

\* _ids_with_parents: the ids and every id in the path of one of them
_ids_with_parents(P, project_ids) ==
    project_ids \cup UNION {PathSet(P[p].path) : p \in project_ids \cap DOMAIN P}

\* get_company_or_none_constraint(company), or Q(company=company)
CompanyConstraint(company, allow_public) ==
    IF allow_public THEN {company, "public"} ELSE {company}

\* get_projects_with_active_user(company, users, project_ids, allow_public),
\* the returned list as a set. The model's projects are those of the
\* company; an entity without a project stores no project field and adds
\* nothing to distinct("project").
get_projects_with_active_user(P, L, C, company, users, project_ids, allow_public) ==
    LET ids_with_children == _ids_with_children(P, project_ids)
        in_scope(p) == project_ids # {} => p \in ids_with_children
        res == {p \in DOMAIN P : C.project[p] \in users /\ in_scope(p)}
                \cup {L[l].project : l \in
                        {x \in DOMAIN L :
                            /\ C.leaf[x].user \in users
                            /\ C.leaf[x].company \in CompanyConstraint(company, allow_public)
                            /\ L[x].project # None
                            /\ in_scope(L[x].project)}}
        ids_with_parents == _ids_with_parents(P, res)
    IN  IF res = {} THEN {}
        ELSE IF project_ids # {} THEN {pid \in ids_with_parents : pid \in project_ids}
        ELSE ids_with_parents

\* ------------------------------------------------------------- actions
NoFields == [name |-> <<>>, description |-> FALSE]

\* no call is being served
NoCall ==
    [op |-> "none", id |-> None, dest |-> None, name |-> <<>>,
     fields |-> NoFields, ids |-> {}, outcome |-> "ok",
     touched |-> {}, described |-> {}, result |-> NoResult]

Request(op, id, dest, name, fields, ids) ==
    [op |-> op, id |-> id, dest |-> dest, name |-> name, fields |-> fields, ids |-> ids]

\* a call is served from start to result
Call(req, res) ==
    /\ last = NoCall
    /\ writes < MaxWrites
    /\ res.next_id <= MaxProjects + 1
    /\ projects' = res.projects
    /\ next_id' = res.next_id
    /\ leaves' = res.leaves
    /\ writes' = IF res.projects # projects THEN writes + 1 ELSE writes
    /\ last' = [op |-> req.op, id |-> req.id, dest |-> req.dest,
                name |-> req.name, fields |-> req.fields, ids |-> req.ids,
                outcome |-> res.outcome, touched |-> res.touched,
                described |-> res.described, result |-> res.result]
    /\ pre' = [projects |-> projects, leaves |-> leaves]
    /\ UNCHANGED <<max_depth, attrs, creators, inflight, stats, run>>

\* the ids a caller names: the existing projects and one id that is not there
IdInputs == DOMAIN projects \cup {MaxProjects}

Prefs == {None} \cup Ambiguous(projects)

Segs == {"a", "b"}

\* the locations a caller names: the given ones and the existing projects
Locations(names) == names \cup {projects[p].name : p \in DOMAIN projects}

\* the names a caller gives a project: the given ones and those that change
\* its last segment
Renames(names, project_id) ==
    names \cup
        IF project_id \in DOMAIN projects
        THEN {Append(Front(projects[project_id].name), s) : s \in Segs}
        ELSE {}

Create(names) ==
    \E raw \in names, pref \in Prefs :
        Call(Request("create", None, None, raw, NoFields, {}), create(raw, pref))

MoveProject(names) ==
    \E project_id \in IdInputs, new_location \in Locations(names), pref \in Prefs :
        Call(Request("move_project", project_id, None, new_location, NoFields, {}),
             move_project(project_id, new_location, pref))

MergeProject ==
    \E source_id \in IdInputs, destination_id \in IdInputs :
        Call(Request("merge_project", source_id, destination_id, <<>>, NoFields, {}),
             merge_project(source_id, destination_id))

Update(names) ==
    \E project_id \in IdInputs :
      \E fields \in [name : {<<>>} \cup {<<raw>> : raw \in Renames(names, project_id)},
                     description : BOOLEAN] :
        Call(Request("update", project_id, None, <<>>, fields, {}),
             update(project_id, fields))

MoveUnderProject ==
    \E ids \in SUBSET LeafIds \ {{}}, project_id \in IdInputs :
        Call(Request("move_under_project", None, project_id, <<>>, NoFields, ids),
             move_under_project(ids, project_id))

FindOrCreate(names) ==
    \E project_name \in names, project_id \in IdInputs \cup {None}, pref \in Prefs :
        Call(Request("find_or_create", project_id, None, project_name, NoFields, {}),
             find_or_create(project_name, project_id, pref))

\* the projects a statistics request names: none, one or two
StatsRequests == {ids \in SUBSET IdInputs : Cardinality(ids) <= 2}

\* get_project_stats reads the store and answers; it writes nothing
GetProjectStats ==
    \E project_ids \in StatsRequests, specific_state \in {AnyState} \cup EntityVisibility :
        /\ last = NoCall
        /\ last' = [NoCall EXCEPT !.op = "get_project_stats"]
        /\ stats' = [project_ids |-> project_ids, specific_state |-> specific_state]
                        @@ get_project_stats(
                                projects, leaves, attrs, project_ids, specific_state)
        /\ pre' = [projects |-> projects, leaves |-> leaves]
        /\ UNCHANGED <<max_depth, projects, next_id, leaves, writes, attrs, creators, inflight, run>>

\* get_projects_with_active_user reads the store and answers
GetProjectsWithActiveUser ==
    \E users \in SUBSET Users \ {{}}, project_ids \in StatsRequests, allow_public \in BOOLEAN :
        /\ last = NoCall
        /\ last' = [NoCall EXCEPT !.op = "get_projects_with_active_user"]
        /\ stats' = [project_ids |-> project_ids, users |-> users,
                     allow_public |-> allow_public,
                     result |-> get_projects_with_active_user(
                                    projects, leaves, creators, "company",
                                    users, project_ids, allow_public)]
        /\ pre' = [projects |-> projects, leaves |-> leaves]
        /\ UNCHANGED <<max_depth, projects, next_id, leaves, writes, attrs, creators, inflight, run>>

\* no call is being served write by write
NoRun == [todo |-> << >>, done |-> << >>, outcome |-> "ok", result |-> NoResult]

\* a call starts that will make the writes ws one by one and end as res
Begin(req, ws, res) ==
    /\ last = NoCall
    /\ writes < MaxWrites
    /\ res.next_id <= MaxProjects + 1
    /\ run' = [todo |-> ws, done |-> << >>, outcome |-> res.outcome, result |-> res.result]
    /\ last' = [op |-> req.op, id |-> req.id, dest |-> req.dest,
                name |-> req.name, fields |-> req.fields, ids |-> req.ids,
                outcome |-> "running", touched |-> {},
                described |-> {}, result |-> NoResult]
    /\ pre' = [projects |-> projects, leaves |-> leaves]
    /\ writes' = writes + 1
    /\ UNCHANGED <<max_depth, projects, next_id, leaves, attrs, creators, inflight, stats>>

\* merge_project: rejected at once, or started
StartMerge ==
    \E source_id \in IdInputs, destination_id \in IdInputs :
        LET req == Request("merge_project", source_id, destination_id, << >>, NoFields, {})
            res == merge_project(source_id, destination_id)
        IN  IF res.outcome = "ok"
            THEN Begin(req, merge_writes(source_id, destination_id), res)
            ELSE Call(req, res)

\* move_project: rejected before any write, or started
StartMove(names) ==
    \E project_id \in IdInputs, new_location \in Locations(names), pref \in Prefs :
        LET req == Request("move_project", project_id, None, new_location, NoFields, {})
            res == move_project(project_id, new_location, pref)
            ws == move_writes(project_id, new_location, pref)
        IN  IF res.outcome \in {"InvalidProjectId", "ProjectPathExceedsMax"} \/ ws = << >>
            THEN Call(req, res)
            ELSE Begin(req, ws, res)

\* the call being served makes its next write; with the last one it ends
Write ==
    /\ run.todo # << >>
    /\ LET w == Head(run.todo)
           rest == Tail(run.todo)
       IN  /\ projects' = WriteProjects(projects, w)
           /\ leaves' = WriteLeaves(leaves, w)
           /\ next_id' = IF w.kind = "save" /\ w.id >= next_id THEN w.id + 1 ELSE next_id
           /\ last' = [last EXCEPT
                        !.touched = IF w.kind \in {"save", "update", "stamp"}
                                    THEN @ \cup ({w.id} \cap DOMAIN projects')
                                    ELSE @,
                        !.outcome = IF rest = << >> THEN run.outcome ELSE @,
                        !.result = IF rest = << >> THEN run.result ELSE @]
           /\ run' = IF rest = << >> THEN NoRun
                     ELSE [run EXCEPT !.todo = rest, !.done = Append(@, w)]
    /\ UNCHANGED <<max_depth, writes, pre, attrs, creators, inflight, stats>>

\* the store fails the next write: the call ends there, nothing is undone
Fail ==
    /\ run.todo # << >>
    /\ run' = NoRun
    /\ last' = [last EXCEPT !.outcome = "StoreUnavailable"]
    /\ UNCHANGED <<max_depth, projects, next_id, leaves, writes, pre, attrs, creators, inflight, stats>>

\* the calls served at the same time
Threads == {1, 2}

NoThread == [op |-> "none", pc |-> "idle", id |-> None, name |-> << >>,
             todo |-> << >>, value |-> None]

\* no call is being served; base is the Project collection as it was when
\* the first of the calls began, log the writes those calls made since,
\* overlapped whether one of them began while another had yet to finish
NoInflight == [calls |-> [t \in Threads |-> NoThread], base |-> << >>, log |-> << >>,
               overlapped |-> FALSE]

Idle == \A t \in Threads : inflight.calls[t].pc = "idle"

Finished == \A t \in Threads : inflight.calls[t].pc = "done"

\* thread t goes on as call c, having made the writes ws
Proceed(t, c, ws) ==
    inflight' = [calls |-> [inflight.calls EXCEPT ![t] = c],
                 base |-> IF Idle THEN projects ELSE inflight.base,
                 log |-> inflight.log \o ws,
                 overlapped |->
                    \/ inflight.overlapped
                    \/ /\ inflight.calls[t].pc = "idle"
                       /\ \E o \in Threads \ {t} :
                            inflight.calls[o].pc \notin {"idle", "done"}]

\* find_or_create, line 250: the lookup by name
FindLookup(t, names) ==
    \E project_name \in names, pref \in Prefs :
        LET found == ByName(projects, _validate_project_name(project_name).name)
            c == [NoThread EXCEPT !.op = "find_or_create", !.name = project_name]
        IN  /\ inflight.calls[t].pc = "idle"
            /\ last = NoCall
            /\ Proceed(t, IF found # {}
                          THEN [c EXCEPT !.pc = "done", !.value = First(found, pref)]
                          ELSE [c EXCEPT !.pc = "create"],
                       << >>)
            /\ UNCHANGED <<max_depth, projects, next_id, leaves, writes, last, pre,
                           attrs, creators, stats, run>>

\* find_or_create, lines 254-263: the create after a lookup that found nothing
FindCreate(t) ==
    \E pref \in Prefs :
        LET c == inflight.calls[t]
            res == create(_validate_project_name(c.name).name, pref)
        IN  /\ c.op = "find_or_create"
            /\ c.pc = "create"
            /\ res.next_id <= MaxProjects + 1
            /\ projects' = res.projects
            /\ next_id' = res.next_id
            /\ Proceed(t, [c EXCEPT !.pc = "done", !.value = res.result.value], << >>)
            /\ UNCHANGED <<max_depth, leaves, writes, last, pre,
                           attrs, creators, stats, run>>

\* the locations of a move that create no project: the root and the names
\* of the existing projects
ExistingLocations == {<<"">>} \cup {projects[p].name : p \in DOMAIN projects}

\* move_project, lines 120-142: the reads and the validation, on the store
\* as it is now; the writes that follow are fixed by what was read
MoveStart(t) ==
    \E project_id \in DOMAIN projects, new_location \in ExistingLocations, pref \in Prefs :
        LET res == move_project(project_id, new_location, pref)
            ws == move_writes(project_id, new_location, pref)
            c == [NoThread EXCEPT !.op = "move_project", !.id = project_id,
                                  !.name = new_location]
        IN  /\ inflight.calls[t].pc = "idle"
            /\ last = NoCall
            /\ writes < MaxWrites
            /\ writes' = writes + 1
            /\ Proceed(t, IF res.outcome # "ok"
                          THEN [c EXCEPT !.pc = "done"]
                          ELSE [c EXCEPT !.pc = "write", !.todo = ws],
                       << >>)
            /\ UNCHANGED <<max_depth, projects, next_id, leaves, last, pre,
                           attrs, creators, stats, run>>

\* move_project, lines 144-152: the next write of the call
MoveWrite(t) ==
    LET c == inflight.calls[t]
        w == Head(c.todo)
        rest == Tail(c.todo)
    IN  /\ c.op = "move_project"
        /\ c.pc = "write"
        /\ projects' = WriteProjects(projects, w)
        /\ Proceed(t, [c EXCEPT !.todo = rest,
                                !.pc = IF rest = << >> THEN "done" ELSE "write"],
                   <<w>>)
        /\ UNCHANGED <<max_depth, next_id, leaves, writes, last, pre,
                       attrs, creators, stats, run>>

\* the callers take the results of the calls served at the same time
Collect ==
    /\ Finished
    /\ inflight' = NoInflight
    /\ UNCHANGED <<max_depth, projects, next_id, leaves, writes, last, pre,
                   attrs, creators, stats, run>>

\* the caller takes the result
Return ==
    /\ last # NoCall
    /\ last.outcome # "running"
    /\ last' = NoCall
    /\ pre' = [projects |-> projects, leaves |-> leaves]
    /\ stats' = NoStats
    /\ UNCHANGED <<max_depth, projects, next_id, leaves, writes, attrs, creators, inflight, run>>

Init ==
    /\ max_depth \in DepthConfigs
    /\ projects = << >>
    /\ next_id = 1
    /\ leaves = [l \in LeafIds |-> [project |-> None, archived |-> FALSE]]
    /\ writes = 0
    /\ last = NoCall
    /\ pre = [projects |-> projects, leaves |-> leaves]
    /\ attrs = [l \in LeafIds |-> NoAttrs]
    /\ creators = NoCreators
    /\ stats = NoStats
    /\ run = NoRun
    /\ inflight = NoInflight

Next ==
    \/ Create(NameInputs)
    \/ MoveProject(NameInputs)
    \/ MergeProject
    \/ Update(NameInputs)
    \/ Return

Spec == Init /\ [][Next]_vars

\* The same calls over a small tree, with entities that carry the archived
\* tag or not and are moved between projects
LeafNames == {<<"a">>, <<"b">>, <<"a", "b">>}

LeafInit ==
    /\ max_depth \in DepthConfigs
    /\ projects = << >>
    /\ next_id = 1
    /\ leaves \in [LeafIds -> [project : {None}, archived : BOOLEAN]]
    /\ writes = 0
    /\ last = NoCall
    /\ pre = [projects |-> projects, leaves |-> leaves]
    /\ attrs = [l \in LeafIds |-> NoAttrs]
    /\ creators = NoCreators
    /\ stats = NoStats
    /\ run = NoRun
    /\ inflight = NoInflight

LeafNext ==
    \/ Create(LeafNames)
    \/ MergeProject
    \/ MoveUnderProject
    \/ Return

LeafSpec == LeafInit /\ [][LeafNext]_vars

\* The statistics over a tree of three levels that is merged, with tasks in
\* either section
StatsNames == {<<"a", "b", "a">>}

\* the Task fields callers have stored: status, type, started, completed
StatsInputs ==
    {[status |-> "created", type |-> "training", started |-> 1000, completed |-> 5000],
     [status |-> NoStatus, type |-> "testing", started |-> 1000, completed |-> 2999]}

StatsInit ==
    /\ max_depth = Min(DepthConfigs)
    /\ projects = << >>
    /\ next_id = 1
    /\ leaves \in [LeafIds -> [project : {None}, archived : BOOLEAN]]
    /\ \A l \in LeafIds : EntityType(l) = "Model" => ~leaves[l].archived
    /\ writes = 0
    /\ last = NoCall
    /\ pre = [projects |-> projects, leaves |-> leaves]
    /\ attrs \in [LeafIds -> StatsInputs \cup {NoAttrs}]
    /\ \A l \in LeafIds : (EntityType(l) = "Model") <=> (attrs[l] = NoAttrs)
    /\ creators = NoCreators
    /\ stats = NoStats
    /\ run = NoRun
    /\ inflight = NoInflight

StatsNext ==
    \/ Create(StatsNames)
    \/ MergeProject
    \/ MoveUnderProject
    \/ GetProjectStats
    \/ Return

StatsSpec == StatsInit /\ [][StatsNext]_vars

\* The statistics over tasks that differ in status, type and time stamps
RuntimeNames == {<<"a", "b">>}

TaskInputs ==
    StatsInputs \cup
    {[status |-> "failed", type |-> "testing", started |-> 1000, completed |-> None],
     [status |-> "failed", type |-> "training", started |-> None, completed |-> 5000],
     [status |-> "failed", type |-> "annotation", started |-> 5000, completed |-> 1000],
     [status |-> "created", type |-> "inference", started |-> 1000, completed |-> 5000]}

RuntimeInit ==
    /\ max_depth = Min(DepthConfigs)
    /\ projects = << >>
    /\ next_id = 1
    /\ leaves \in [LeafIds -> [project : {None}, archived : BOOLEAN]]
    /\ \A l \in LeafIds : EntityType(l) = "Model" => ~leaves[l].archived
    /\ writes = 0
    /\ last = NoCall
    /\ pre = [projects |-> projects, leaves |-> leaves]
    /\ attrs \in [LeafIds -> TaskInputs \cup {NoAttrs}]
    /\ \A l \in LeafIds : (EntityType(l) = "Model") <=> (attrs[l] = NoAttrs)
    /\ \A l \in LeafIds \ {Min(LeafIds)} : attrs[l] \in StatsInputs \cup {NoAttrs}
    /\ creators = NoCreators
    /\ stats = NoStats
    /\ run = NoRun
    /\ inflight = NoInflight

RuntimeNext ==
    \/ Create(RuntimeNames)
    \/ MoveUnderProject
    \/ GetProjectStats
    \/ Return

RuntimeSpec == RuntimeInit /\ [][RuntimeNext]_vars

\* Projects that are created, looked up and moved
FindNext ==
    \/ Create(NameInputs)
    \/ FindOrCreate(NameInputs)
    \/ MoveProject(NameInputs)
    \/ Return

FindSpec == Init /\ [][FindNext]_vars

\* Merges and moves served write by write
StepNames == {<<"a", "b">>, <<"b">>}

StepInit ==
    /\ max_depth = Min(DepthConfigs)
    /\ projects = << >>
    /\ next_id = 1
    /\ leaves = [l \in LeafIds |-> [project |-> None, archived |-> l = NumLeaves]]
    /\ writes = 0
    /\ last = NoCall
    /\ pre = [projects |-> projects, leaves |-> leaves]
    /\ attrs = [l \in LeafIds |-> NoAttrs]
    /\ creators = NoCreators
    /\ stats = NoStats
    /\ run = NoRun
    /\ inflight = NoInflight

StepNext ==
    \/ Create(StepNames)
    \/ StartMerge
    \/ StartMove(StepNames)
    \/ Write
    \/ Fail
    \/ Return

StepSpec == StepInit /\ [][StepNext]_vars

\* Merges served write by write, over a store with an active task, an active
\* model and an archived task that are moved between the projects
MergeStepNames == {<<"a", "b">>}

MergeStepNext ==
    \/ Create(MergeStepNames)
    \/ MoveUnderProject
    \/ StartMerge
    \/ Write
    \/ Fail
    \/ Return

MergeStepSpec == StepInit /\ [][MergeStepNext]_vars

\* Projects and entities of several users and companies, in a tree of three
\* levels that is merged
ActiveNames == {<<"a", "b", "a">>}

ActiveInit ==
    /\ max_depth = Min(DepthConfigs)
    /\ projects = << >>
    /\ next_id = 1
    /\ leaves = [l \in LeafIds |-> [project |-> None, archived |-> l = NumLeaves]]
    /\ writes = 0
    /\ last = NoCall
    /\ pre = [projects |-> projects, leaves |-> leaves]
    /\ attrs = [l \in LeafIds |-> NoAttrs]
    /\ creators \in [project : [ProjectIds -> Users],
                      leaf : [LeafIds -> [user : Users, company : Companies]]]
    /\ \A p \in ProjectIds : p > 2 => creators.project[p] = "u1"
    /\ \A l \in LeafIds \ {Min(LeafIds)} :
            creators.leaf[l] = [user |-> "u2", company |-> "company"]
    /\ creators.leaf[Min(LeafIds)].user = "u1"
    /\ stats = NoStats
    /\ run = NoRun
    /\ inflight = NoInflight

ActiveNext ==
    \/ Create(ActiveNames)
    \/ MergeProject
    \/ MoveUnderProject
    \/ GetProjectsWithActiveUser
    \/ Return

ActiveSpec == ActiveInit /\ [][ActiveNext]_vars

\* Two find_or_create calls served at the same time
FindNames == {<<"a">>, <<"a", "b">>}

ConcurrentFindNext ==
    \/ \E t \in Threads : FindLookup(t, FindNames)
    \/ \E t \in Threads : FindCreate(t)
    \/ Collect

ConcurrentFindSpec == Init /\ [][ConcurrentFindNext]_vars

\* Two move_project calls served at the same time over a tree of three
\* levels and a second root
RaceNames == {<<"a", "b", "a">>, <<"b">>}

RaceNext ==
    \/ Create(RaceNames)
    \/ \E t \in Threads : MoveStart(t)
    \/ \E t \in Threads : MoveWrite(t)
    \/ Collect
    \/ Return

RaceSpec == StepInit /\ [][RaceNext]_vars

\* ------------------------------------------------------------- properties
Succeeded(op) == last.op = op /\ last.outcome = "ok"

Rejected(op, err) == last.op = op /\ last.outcome = err

StartsWith(s, prefix) ==
    Len(prefix) <= Len(s) /\ SubSeq(s, 1, Len(prefix)) = prefix

\* the call wrote nothing: no document, no field, no entity
NothingWritten ==
    /\ projects = pre.projects
    /\ leaves = pre.leaves
    /\ last.touched = {}
    /\ last.described = {}

\* create, move_project and merge_project alone
RelocateNext ==
    \/ Create(NameInputs)
    \/ MoveProject(NameInputs)
    \/ MergeProject
    \/ Return

RelocateSpec == Init /\ [][RelocateNext]_vars

Depth(P, p) == Len(P[p].path) + 1

\* the projects below p: those that carry p in their path
Below(P, p) == {d \in DOMAIN P : InPath(P[d].path, p)}

\* C1: after any create, move_project and merge_project calls every project
\* has the depth len(path) + 1 its name has segments for, and that depth is
\* at most max_depth
DepthInvariant ==
    \A p \in DOMAIN projects :
        /\ Len(projects[p].name) = Depth(projects, p)
        /\ Depth(projects, p) <= max_depth

\* C2: after any create, move_project, merge_project and update calls the
\* parent is the last element of the path (no parent iff the path is
\* empty), and the path of a project below P starts with P.path + [P.id]
PathConsistency ==
    \A p \in DOMAIN projects :
        /\ (projects[p].parent = None) <=> (projects[p].path = <<>>)
        /\ projects[p].path # <<>> =>
                projects[p].parent = projects[p].path[Len(projects[p].path)]
        /\ \A d \in Below(projects, p) :
                StartsWith(projects[d].path, Append(projects[p].path, p))

DepthRejected ==
    /\ last.op \in {"create", "move_project", "merge_project"}
    /\ last.outcome = "ProjectPathExceedsMax"

\* C3: a create, move_project or merge_project rejected with
\* ProjectPathExceedsMax has written nothing
DepthRejectionWritesNothing == DepthRejected => NothingWritten

\* a project with subprojects is moved to a location that does not exist
\* yet, and the move is rejected for depth
DepthRejectionWitness ==
    /\ Rejected("move_project", "ProjectPathExceedsMax")
    /\ ByName(projects, name_parts(last.name)) = {}
    /\ Below(projects, last.id) # {}

\* C4: after a successful merge_project(S, D) with D outside the subtree of
\* S, S is gone and every project that was below S is below D: D is in its
\* path, its path starts with D.path + [D.id], and S is not in its path
MergeRelocatesSubprojects ==
    (Succeeded("merge_project") /\ last.dest \notin Below(pre.projects, last.id)) =>
        /\ last.id \notin DOMAIN projects
        /\ \A x \in Below(pre.projects, last.id) :
            /\ x \in DOMAIN projects
            /\ InPath(projects[x].path, last.dest)
            /\ StartsWith(projects[x].path,
                          Append(projects[last.dest].path, last.dest))
            /\ ~InPath(projects[x].path, last.id)

Active(L, p) == {l \in DOMAIN L : L[l].project = p /\ ~L[l].archived}

Archived(L, p) == {l \in DOMAIN L : L[l].project = p /\ L[l].archived}

\* C5: a successful merge_project(S, D) leaves D with the non-archived
\* entities of S and of D, leaves S with none, and returns the number of
\* non-archived entities S had
MergeConservation ==
    Succeeded("merge_project") =>
        /\ Cardinality(Active(leaves, last.dest)) =
                Cardinality(Active(pre.leaves, last.id))
                    + Cardinality(Active(pre.leaves, last.dest))
        /\ Active(leaves, last.id) = {}
        /\ last.result.moved = Cardinality(Active(pre.leaves, last.id))

MergeConservationWitness ==
    /\ Succeeded("merge_project")
    /\ Active(pre.leaves, last.id) # {}
    /\ Active(pre.leaves, last.dest) # {}

\* the parent new_location resolves to, when the lookup has one answer
ResolvesTo(P, raw, parent) ==
    IF name_parts(raw) = <<>> THEN parent = None
    ELSE ByName(P, name_parts(raw)) = {parent}

MoveToCurrentParent ==
    /\ last.op = "move_project"
    /\ last.id \in DOMAIN pre.projects
    /\ ResolvesTo(pre.projects, last.name, pre.projects[last.id].parent)

\* C6: a move_project whose location resolves to the current parent is
\* rejected with ProjectSourceAndDestinationAreTheSame and writes nothing
MoveNoOpGuard ==
    MoveToCurrentParent =>
        /\ last.outcome = "ProjectSourceAndDestinationAreTheSame"
        /\ NothingWritten

\* the depths a move of p to a location of n segments would produce
MoveExceeds(P, p, n) ==
    \E x \in {p} \cup Below(P, p) :
        (Depth(P, x) - Depth(P, p) + 1) + n > max_depth

\* C7: move_project of an existing project is rejected with
\* ProjectPathExceedsMax iff some resulting depth exceeds max_depth
MoveDepthExact ==
    (last.op = "move_project" /\ last.id \in DOMAIN pre.projects) =>
        ((last.outcome = "ProjectPathExceedsMax")
            <=> MoveExceeds(pre.projects, last.id, _get_project_depth(last.name)))

\* max_depth = 3, a childless project of depth 3, a location of 3 segments
MoveDepthWitness ==
    /\ Rejected("move_project", "ProjectPathExceedsMax")
    /\ max_depth = 3
    /\ Depth(pre.projects, last.id) = 3
    /\ Below(pre.projects, last.id) = {}
    /\ _get_project_depth(last.name) = 3

RenameRelocates ==
    /\ last.op = "update"
    /\ last.id \in DOMAIN pre.projects
    /\ HasName(last.fields)
    /\ ValidProjectName(last.fields.name[1])
    /\ Front(name_parts(last.fields.name[1])) # Front(pre.projects[last.id].name)

\* C8: an update whose name has another location than the project's name is
\* rejected with CannotUpdateProjectLocation and writes nothing
RenameCannotRelocate ==
    RenameRelocates =>
        /\ last.outcome = "CannotUpdateProjectLocation"
        /\ NothingWritten

RenameCannotRelocateWitness ==
    /\ RenameRelocates
    /\ last.fields.description
    /\ Below(pre.projects, last.id) # {}

Renamed ==
    /\ Succeeded("update")
    /\ HasName(last.fields)
    /\ projects[last.id].name # pre.projects[last.id].name

\* C9: a successful rename of P rewrites, in the name of every project below
\* P, the segment at P's position and nothing else, changes no id, parent or
\* path and no project outside P's subtree; an update without a name changes
\* no other project
RenameCascade ==
    /\ Renamed =>
        LET P == last.id
            k == Len(pre.projects[P].name)
            segment == projects[P].name[k]
        IN  /\ DOMAIN projects = DOMAIN pre.projects
            /\ \A d \in DOMAIN projects :
                /\ projects[d].parent = pre.projects[d].parent
                /\ projects[d].path = pre.projects[d].path
                /\ d \in Below(pre.projects, P) \ {P} =>
                    /\ Len(pre.projects[d].name) >= k
                    /\ projects[d].name =
                            [pre.projects[d].name EXCEPT ![k] = segment]
                /\ d \notin Below(pre.projects, P) \cup {P} =>
                    projects[d] = pre.projects[d]
    /\ (Succeeded("update") /\ ~HasName(last.fields)) =>
            /\ projects = pre.projects
            /\ last.touched = {last.id}

StatsAnswered == last.op = "get_project_stats"

\* the immediate children of p: the projects whose parent is p
Children(P, p) == {c \in DOMAIN P : P[c].parent = p}

\* the tasks of project p itself in a section
OwnTasks(p, section) ==
    {l \in TasksOf(leaves, p) : SectionOf(leaves, l) = section}

\* the unrolled statistics of p: its own tasks of a status, their run time
OwnCount(p, section, status) ==
    Cardinality({l \in OwnTasks(p, section) : ensure_valid_fields(attrs, l) = status})

OwnRuntime(p, section) ==
    Sum([l \in LeafIds |-> runtime_subquery(attrs, l)],
        {l \in OwnTasks(p, section) : attrs[l].type \in RuntimeTypes})

\* what get_project_stats answers for p alone, for the sections of the call
StatsOf(p, section) ==
    get_project_stats(projects, leaves, attrs, {p}, stats.specific_state).stats[p][section]

\* C11: the record get_project_stats returns for a requested project P is,
\* per section and status and for total_runtime, the sum of the statistics of
\* P's own tasks and of the records of P's immediate children
RollupAdditivity ==
    StatsAnswered =>
        \A p \in stats.project_ids :
            \A section \in DOMAIN stats.stats[p] :
                LET rec == stats.stats[p][section]
                    kids == Children(projects, p)
                IN  /\ \A s \in TaskStatus :
                            rec.status_count[s] =
                                OwnCount(p, section, s)
                                    + Sum([c \in kids |-> StatsOf(c, section).status_count[s]],
                                          kids)
                    /\ rec.total_runtime =
                            OwnRuntime(p, section)
                                + Sum([c \in kids |-> StatsOf(c, section).total_runtime], kids)


\* the scope of a requested project: itself and the projects below it
Scope(p) == {p} \cup _get_sub_projects(projects, p)

\* the tasks of a status in a section anywhere in the scope of p
ScopeTasks(p, section, status) ==
    {l \in UNION {OwnTasks(q, section) : q \in Scope(p)} :
        ensure_valid_fields(attrs, l) = status}

\* C12: for every requested project and every reported section the
\* status_count of get_project_stats has a key for every known task status,
\* and the value is 0 when no task in the subtree has that status
StatusDefaults ==
    StatsAnswered =>
        \A p \in stats.project_ids :
            \A section \in report_for_states(stats.specific_state) :
                /\ section \in DOMAIN stats.stats[p]
                /\ TaskStatus \subseteq DOMAIN stats.stats[p][section].status_count
                /\ \A s \in TaskStatus :
                        ScopeTasks(p, section, s) = {} =>
                            stats.stats[p][section].status_count[s] = 0

\* both sections are asked of a project without any task and of a project
\* whose only tasks are active ones of a project below it
StatusDefaultsWitness ==
    /\ StatsAnswered
    /\ stats.specific_state = AnyState
    /\ \E p \in stats.project_ids, q \in stats.project_ids :
            /\ \A section \in EntityVisibility :
                    \A x \in Scope(q) : OwnTasks(x, section) = {}
            /\ \A x \in Scope(p) : OwnTasks(x, "archived") = {}
            /\ OwnTasks(p, "active") = {}
            /\ \E c \in _get_sub_projects(projects, p) : OwnTasks(c, "active") # {}

\* the whole seconds between started and completed: the largest n with
\* n * 1000 <= completed - started, and 0 for a task that lacks a time stamp
\* or did not complete after it started
MaxSeconds == 10

WholeSeconds(l) ==
    IF attrs[l].started = None \/ attrs[l].completed = None
        \/ attrs[l].completed <= attrs[l].started
    THEN 0
    ELSE CHOOSE n \in 0..MaxSeconds :
            /\ n * 1000 <= attrs[l].completed - attrs[l].started
            /\ (n + 1) * 1000 > attrs[l].completed - attrs[l].started

\* the tasks of the counted types in a section anywhere in the scope of p
RuntimeTasks(p, section) ==
    {l \in UNION {OwnTasks(q, section) : q \in Scope(p)} :
        attrs[l].type \in RuntimeTypes}

\* C13: total_runtime of a section of a requested project is the sum of the
\* whole seconds of the training, testing and annotation tasks of that
\* section in its subtree, a natural number; the two sections together hold
\* every such task once
RuntimeComputation ==
    StatsAnswered =>
        \A p \in stats.project_ids :
            /\ \A section \in report_for_states(stats.specific_state) :
                    /\ stats.stats[p][section].total_runtime \in Nat
                    /\ stats.stats[p][section].total_runtime =
                            Sum([l \in LeafIds |-> WholeSeconds(l)], RuntimeTasks(p, section))
            /\ stats.specific_state = AnyState =>
                    stats.stats[p]["active"].total_runtime
                        + stats.stats[p]["archived"].total_runtime =
                    Sum([l \in LeafIds |-> WholeSeconds(l)],
                        RuntimeTasks(p, "active") \cup RuntimeTasks(p, "archived"))

\* a project is asked about whose subtree holds, in one section, a task
\* started at 1000 and completed at 5000 and a task that never completed,
\* one of them below it: 4 seconds are reported
RuntimeComputationWitness ==
    /\ StatsAnswered
    /\ \E p \in stats.project_ids, section \in report_for_states(stats.specific_state) :
            /\ \E l \in RuntimeTasks(p, section) :
                    /\ attrs[l].started = 1000 /\ attrs[l].completed = 5000
                    /\ leaves[l].project # p
            /\ \E l \in RuntimeTasks(p, section) :
                    attrs[l].started # None /\ attrs[l].completed = None
            /\ stats.stats[p][section].total_runtime = 4

\* C14: the second result of get_project_stats lists, for each requested
\* project, its immediate children only (the projects whose parent it is), as
\* {id, name} records in the order of their names
ChildrenListing ==
    StatsAnswered =>
        \A p \in stats.project_ids :
            LET listed == stats.children[p]
            IN  /\ {listed[i].id : i \in 1..Len(listed)} = Children(projects, p)
                /\ \A i \in 1..Len(listed) :
                        listed[i].name = projects[listed[i].id].name
                /\ \A i \in 1..Len(listed), j \in 1..Len(listed) :
                        i < j => ~NameLess(listed[j].name, listed[i].name)

\* C15: a project that gains or loses an immediate child through a
\* successful create, move_project or merge_project has its last_update
\* stamped by that call
LastUpdateBookkeeping ==
    (Succeeded("create") \/ Succeeded("move_project") \/ Succeeded("merge_project")) =>
        \A p \in DOMAIN projects :
            LET before == IF p \in DOMAIN pre.projects
                          THEN Children(pre.projects, p) ELSE {}
            IN  Children(projects, p) # before => p \in last.touched

\* C16: a successful move_project(P, new_location) returns 1 + the number of
\* projects below P as moved, and as affected the old parent with its path and
\* the new parent with its path, none of them P or a project below P
MoveResult ==
    Succeeded("move_project") =>
        LET P == last.id
            below == Below(pre.projects, P)
            old_parent == pre.projects[P].parent
            new_parent == projects[P].parent
            chain(parent) ==
                IF parent = None THEN {}
                ELSE {parent} \cup PathSet(
                        IF parent \in DOMAIN pre.projects
                        THEN pre.projects[parent].path
                        ELSE projects[parent].path)
        IN  /\ last.result.moved = 1 + Cardinality(below \ {P})
            /\ last.result.affected = chain(old_parent) \cup chain(new_parent)
            /\ last.result.affected \cap ({P} \cup below) = {}

\* C17: after a successful create(name) every proper prefix of the name is
\* the name of exactly one project, a prefix that had a project before has
\* got no other, each project of the chain has the one before it as parent,
\* and the path of the new project is the chain from the root to its parent
CreateChain ==
    Succeeded("create") =>
        LET name == name_parts(last.name)
            new == last.result.value
            path == projects[new].path
            prefix(i) == SubSeq(name, 1, i)
        IN  /\ \A i \in 1..(Len(name) - 1) :
                    /\ Cardinality(ByName(projects, prefix(i))) = 1
                    /\ ByName(pre.projects, prefix(i)) # {} =>
                            ByName(projects, prefix(i)) = ByName(pre.projects, prefix(i))
            /\ Len(path) = Len(name) - 1
            /\ \A i \in 1..Len(path) :
                    /\ path[i] \in ByName(projects, prefix(i))
                    /\ projects[path[i]].parent = IF i = 1 THEN None ELSE path[i - 1]
            /\ projects[new].parent = IF path = << >> THEN None ELSE path[Len(path)]

\* C18: find_or_create with the name of an existing project returns the id
\* of a project of that name and creates nothing; with a name no project has
\* it returns the id of the one project that then has the name (so a second
\* call returns the same id and the project stays the only one); with an
\* existing project_id it returns that id and creates nothing; with an
\* unknown project_id it fails with InvalidProjectId and creates nothing
FindOrCreateIdempotent ==
    LET name == _validate_project_name(last.name).name
        had == ByName(pre.projects, name)
    IN  /\ (Succeeded("find_or_create") /\ last.id = None /\ had # {}) =>
                /\ last.result.value \in had
                /\ NothingWritten
        /\ (Succeeded("find_or_create") /\ last.id = None /\ had = {}) =>
                /\ ByName(projects, name) = {last.result.value}
                /\ last.result.value \notin DOMAIN pre.projects
        /\ (last.op = "find_or_create" /\ last.id \in DOMAIN pre.projects) =>
                /\ last.outcome = "ok"
                /\ last.result.value = last.id
                /\ NothingWritten
        /\ (last.op = "find_or_create" /\ last.id # None
                /\ last.id \notin DOMAIN pre.projects) =>
                /\ last.outcome = "InvalidProjectId"
                /\ NothingWritten

\* the second of two calls with a name that was new: the name has a project
\* that an earlier call has created together with its parent, and the call
\* returns it
FindOrCreateIdempotentWitness ==
    /\ Succeeded("find_or_create")
    /\ last.id = None
    /\ Len(name_parts(last.name)) = 2
    /\ ByName(pre.projects, name_parts(last.name)) = {last.result.value}
    /\ NothingWritten

\* the place of a write in the order of a merge: entities, projects, the
\* delete, the last_update of the destination
Phase(w) ==
    IF w.kind = "entities" THEN 1
    ELSE IF w.kind \in {"save", "update"} THEN 2
    ELSE IF w.kind = "delete" THEN 3
    ELSE 4

\* the projects that have been deleted
Deleted == (1..(next_id - 1)) \ DOMAIN projects

\* C19: the writes of a merge_project(S, D) come in the order leaves, child
\* projects, deletion of S, last_update of D; and in every state in which S
\* is gone no entity without the archived tag references S and no project
\* has S as parent
MergeWriteOrder ==
    /\ (last.op = "merge_project" /\ last.outcome = "running") =>
            LET plan == run.done \o run.todo
            IN  /\ \A i \in 1..Len(plan), j \in 1..Len(plan) :
                        i < j => Phase(plan[i]) <= Phase(plan[j])
                /\ \E i \in 1..Len(plan) : plan[i] = DeleteWrite(last.id)
                /\ plan[Len(plan)] = StampWrite(last.dest)
    /\ \A s \in Deleted :
            /\ Active(leaves, s) = {}
            /\ \A p \in DOMAIN projects : projects[p].parent # s

\* a merge has moved a task and a model, has moved a child project, and has
\* deleted the source; the last_update of the destination is yet to come
MergeWriteOrderWitness ==
    /\ last.op = "merge_project"
    /\ last.outcome = "running"
    /\ last.id \in Deleted
    /\ Cardinality(Active(pre.leaves, last.id)) >= 2
    /\ Children(pre.projects, last.id) # {}
    /\ run.todo = <<StampWrite(last.dest)>>

\* a structurally valid tree: the parent is the last element of the path,
\* and the path of a project below p starts with p.path + [p.id]
ValidTree(P) ==
    \A p \in DOMAIN P :
        /\ (P[p].parent = None) <=> (P[p].path = << >>)
        /\ P[p].path # << >> => P[p].parent = P[p].path[Len(P[p].path)]
        /\ \A d \in Below(P, p) : StartsWith(P[d].path, Append(P[p].path, p))

\* C20: a move_project or merge_project that starts on a valid tree and
\* stops after any number of its writes leaves a valid tree
PartialFailureValid ==
    (/\ last.op \in {"move_project", "merge_project"}
     /\ last.outcome \in {"running", "StoreUnavailable"}
     /\ ValidTree(pre.projects)) =>
        ValidTree(projects)

\* C23: after completed move_project and merge_project calls no project's
\* path contains its own id, no project is its own parent, and no project
\* has a parent that has been deleted
Acyclicity ==
    \A p \in DOMAIN projects :
        /\ ~InPath(projects[p].path, p)
        /\ projects[p].parent # p
        /\ projects[p].parent # None => projects[p].parent \in DOMAIN projects

\* d is r or lies below r by its parent links
RECURSIVE Under(_, _, _, _)
Under(P, d, r, n) ==
    \/ d = r
    \/ /\ n > 0
       /\ d \in DOMAIN P
       /\ P[d].parent # None
       /\ Under(P, P[d].parent, r, n - 1)

\* p is a project one of the users created, or the project of a Task or
\* Model one of the users created that the call may see
UserActiveIn(p) ==
    \/ p \in DOMAIN projects /\ creators.project[p] \in stats.users
    \/ \E l \in LeafIds :
            /\ leaves[l].project = p
            /\ creators.leaf[l].user \in stats.users
            /\ creators.leaf[l].company \in
                    (IF stats.allow_public THEN {"company", "public"} ELSE {"company"})

SubtreeActive(r) ==
    \E p \in ProjectIds \cup {MaxProjects} : UserActiveIn(p) /\ Under(projects, p, r, MaxProjects)

\* C22: on a tree with consistent paths get_projects_with_active_user
\* returns, of the requested ids, exactly those with a project or entity of
\* the users in their subtree; without requested ids it returns every
\* project with one, which is every such project and all its ancestors
ActiveUserRollup ==
    (last.op = "get_projects_with_active_user" /\ ValidTree(projects)) =>
        /\ stats.project_ids # {} =>
                stats.result = {r \in stats.project_ids : SubtreeActive(r)}
        /\ stats.project_ids = {} =>
                stats.result = {r \in ProjectIds \cup {MaxProjects} : SubtreeActive(r)}

\* an entity two levels below a requested project makes it active, and
\* the same entity reaches the root when no ids are requested
ActiveUserRollupWitness ==
    /\ last.op = "get_projects_with_active_user"
    /\ ValidTree(projects)
    /\ \E r \in stats.result :
            /\ ~UserActiveIn(r)
            /\ \E l \in LeafIds :
                    /\ leaves[l].project \in DOMAIN projects
                    /\ Len(projects[leaves[l].project].path) = 2
                    /\ projects[leaves[l].project].path[1] = r
                    /\ creators.leaf[l].user \in stats.users
    /\ \E r \in stats.project_ids \cap DOMAIN projects : r \notin stats.result

\* C24: two find_or_create calls served at the same time for one name that
\* no project had when the first began return the same id, and afterwards
\* exactly one project has that name
ConcurrentFindOrCreate ==
    (/\ Finished
     /\ \A t \in Threads : inflight.calls[t].op = "find_or_create"
     /\ inflight.calls[1].name = inflight.calls[2].name
     /\ ByName(inflight.base, name_parts(inflight.calls[1].name)) = {}) =>
        /\ inflight.calls[1].value = inflight.calls[2].value
        /\ Cardinality(ByName(projects, name_parts(inflight.calls[1].name))) = 1

\* move_project(project_id, new_location) served alone on the store P
MoveAlone(P, project_id, new_location, pref) ==
    LET project == Doc(P, project_id)
        children == _get_sub_projects(P, project_id)
        ens == _ensure_project(
                    [projects |-> P, next_id |-> next_id, touched |-> {}, doc |-> NoDoc],
                    new_location, pref)
        rep == _reposition_project_with_children(
                    ens.projects, P, project_id, children, ens.doc)
    IN  IF project.id = None THEN P
        ELSE IF ~validate_projects_depth(
                    P, {project_id} \cup children,
                    Len(project.path), _get_project_depth(new_location))
        THEN P
        ELSE IF project.parent = ens.doc.id THEN ens.projects
        ELSE rep.projects

\* the stores the two calls leave when one is served after the other
SerialOutcomes ==
    LET a == inflight.calls[1]
        b == inflight.calls[2]
        choice == {None} \cup ProjectIds
    IN  {MoveAlone(MoveAlone(inflight.base, a.id, a.name, p), b.id, b.name, q) :
            p \in choice, q \in choice}
        \cup {MoveAlone(MoveAlone(inflight.base, b.id, b.name, p), a.id, a.name, q) :
            p \in choice, q \in choice}

TwoMoves == \A t \in Threads : inflight.calls[t].op = "move_project"

\* the last write of the calls to document d that sets one of the kinds
LastOf(d, kinds) ==
    LET at == {i \in 1..Len(inflight.log) :
                inflight.log[i].id = d /\ inflight.log[i].kind \in kinds}
    IN  IF at = {} THEN None ELSE CHOOSE i \in at : \A j \in at : j <= i

\* C21: no lock is taken, so of two move_project calls served at the same
\* time every document carries the name and path of the last save or update
\* either call made to it and the parent of the last save, whatever the
\* other call read or wrote; calls that do not overlap leave what serving
\* one after the other leaves
UnserializedMoves ==
    (inflight.log # << >> /\ \E t \in Threads : inflight.calls[t].op = "move_project") =>
        /\ \A d \in DOMAIN inflight.base \cap DOMAIN projects :
            LET set == LastOf(d, {"save", "update"})
                saved == LastOf(d, {"save"})
            IN  /\ projects[d].name =
                        IF set = None THEN inflight.base[d].name ELSE inflight.log[set].name
                /\ projects[d].path =
                        IF set = None THEN inflight.base[d].path ELSE inflight.log[set].path
                /\ projects[d].parent =
                        IF saved = None THEN inflight.base[d].parent ELSE inflight.log[saved].to
        /\ (Finished /\ TwoMoves /\ ~inflight.overlapped
                /\ DOMAIN projects = DOMAIN inflight.base) =>
                projects \in SerialOutcomes

\* two overlapping moves, one of a project and one of a project below it,
\* have finished in a store that neither order of the two leaves
UnserializedMovesWitness ==
    /\ Finished
    /\ TwoMoves
    /\ inflight.overlapped
    /\ DOMAIN projects = DOMAIN inflight.base
    /\ ValidTree(inflight.base)
    /\ \E t \in Threads, o \in Threads :
            inflight.calls[o].id \in Below(inflight.base, inflight.calls[t].id)
    /\ \A S \in SerialOutcomes : DOMAIN S = DOMAIN projects /\ S # projects

====
